---- MODULE Spec2Model ----
(***************************************************************************)
(* Tiered local persistence layer of the productivity suite:               *)
(*   StorageManager   (utils/storage/StorageManager.ts)                    *)
(*   IndexedDBManager (utils/storage/IndexedDBManager.ts)                  *)
(*                                                                         *)
(* The relational image is a record of tables (creation order, rows,       *)
(* AUTOINCREMENT sequence).  A caller awaits every call before the next    *)
(* one, so an action is one awaited call, from its invocation to the       *)
(* settling of its promise.                                                *)
(***************************************************************************)
EXTENDS Integers, Sequences, FiniteSets, TLC

\* ------------------------------------------------------------------ bounds
\* Largest row id (and number of rows) of one table.
MaxId == 2

\* ------------------------------------------------------------- vocabulary
TableNames == {"todos", "pomodoro_sessions"}
\* The settings tables of the countdown and pomodoro facades.
SettingsTables == {"countdown_settings", "pomodoro_settings"}
\* The tables of the chat facade.
ChatTables == {"chat_conversations", "chat_messages"}
AllTables == TableNames \cup SettingsTables \cup ChatTables
Dirs == {"Documents", "Backup"}
Prefs == {"none", "indexedDB", "fileSystem", "localStorage"}
\* Two of the object stores IndexedDBManager declares.
StoreNames == {"todos", "chat_messages"}

\* A nullable reference: <<>> is null, <<v>> is a reference to v.
None == <<>>
Some(v) == <<v>>

\* A column value: SQL NULL, or a text (a sequence of characters).
NullV == [null |-> TRUE, s |-> <<>>]
Txt(s) == [null |-> FALSE, s |-> s]

BuyMilk == Txt(<<"Buy milk">>)
OBrien == Txt(<<"O", "'", "B">>)
SemiText == Txt(<<"a", ";", "b">>)

\* The NOT NULL text column of todos; the nullable notes column of
\* pomodoro_sessions.
Nullable(t) == t = "pomodoro_sessions"

\* ------------------------------------------------------ relational engine
EmptyTable == [seq |-> 0, rows |-> <<>>]
EmptyImage == [order |-> <<>>, tab |-> [t \in AllTables |-> EmptyTable], idx |-> {}]

SeqToSet(s) == {s[i] : i \in 1..Len(s)}
\* The element of a one-element set: The({F(x) : x \in {e}}) is F(e) with e
\* computed once.
The(S) == CHOOSE x \in S : TRUE
HasTable(img, t) == t \in SeqToSet(img.order)
Max(a, b) == IF a >= b THEN a ELSE b

\* SQL statements, as the engine sees them once prepared.
Stmt(k, t, ine, id, cell, name) ==
    [k |-> k, t |-> t, ine |-> ine, id |-> id, cell |-> cell, name |-> name]
CreateTable(t, ine) == Stmt("create", t, ine, 0, NullV, "")
CreateIndex(name, t) == Stmt("createIndex", t, TRUE, 0, NullV, name)
Insert(t, id, cell) == Stmt("insert", t, FALSE, id, cell, "")
InsertOrReplace(t, id, cell) == Stmt("replace", t, FALSE, id, cell, "")
InsertOrIgnore(t, id, cell) == Stmt("ignore", t, FALSE, id, cell, "")
Update(t, id, cell) == Stmt("update", t, FALSE, id, cell, "")
Increment(t, id) == Stmt("increment", t, FALSE, id, NullV, "")
DeleteAll(t) == Stmt("delete", t, FALSE, 0, NullV, "")
DeleteRow(t, id) == Stmt("deleteRow", t, FALSE, id, NullV, "")
Malformed == Stmt("malformed", "todos", FALSE, 0, NullV, "")

\* A settings table declared without its CHECK.
KeyCheckOff(t, id) == TRUE

\* A number as a column value, and the number a column value holds.
Num(n) == Txt(<<ToString(n)>>)
NumOf(cell) == CHOOSE n \in 0..(MaxId + 1) : cell = Num(n)

\* CHECK(id = 1) of the settings tables.
KeyCheck(t, id) == t \in SettingsTables => id = 1

SqlError(img) == [ok |-> FALSE, img |-> img, changes |-> 0, rowid |-> 0]
SqlDone(img, changes, rowid) == [ok |-> TRUE, img |-> img, changes |-> changes, rowid |-> rowid]

WithTable(img, t, tbl) == [img EXCEPT !.tab[t] = tbl]

\* One prepared statement run against an image (stmt.run): SQLite's
\* semantics of the statements the facades and the dump use.
RunStmt(img, st) ==
    CASE st.k = "create" ->
           IF HasTable(img, st.t)
           THEN IF st.ine THEN SqlDone(img, 0, 0) ELSE SqlError(img)
           ELSE SqlDone([img EXCEPT !.order = Append(@, st.t),
                                    !.tab[st.t] = EmptyTable], 0, 0)
      [] st.k = "createIndex" ->
           IF HasTable(img, st.t)
           THEN SqlDone([img EXCEPT !.idx = @ \cup {st.name}], 0, 0)
           ELSE SqlError(img)
      [] st.k = "insert" ->
           LET tbl == img.tab[st.t]
               id == IF st.id = 0 THEN tbl.seq + 1 ELSE st.id
           IN IF \/ ~HasTable(img, st.t)
                 \/ id \in DOMAIN tbl.rows
                 \/ (st.cell.null /\ ~Nullable(st.t))
                 \/ ~KeyCheck(st.t, id)
              THEN SqlError(img)
              ELSE SqlDone(WithTable(img, st.t,
                              [seq |-> Max(tbl.seq, id),
                               rows |-> (id :> st.cell) @@ tbl.rows]), 1, id)
      [] st.k = "replace" ->
           LET tbl == img.tab[st.t]
           IN IF \/ ~HasTable(img, st.t)
                 \/ (st.cell.null /\ ~Nullable(st.t))
                 \/ ~KeyCheck(st.t, st.id)
              THEN SqlError(img)
              ELSE SqlDone(WithTable(img, st.t,
                              [seq |-> Max(tbl.seq, st.id),
                               rows |-> (st.id :> st.cell) @@ tbl.rows]), 1, st.id)
      [] st.k = "ignore" ->
           LET tbl == img.tab[st.t]
           IN IF ~HasTable(img, st.t) THEN SqlError(img)
              ELSE IF \/ st.id \in DOMAIN tbl.rows
                      \/ (st.cell.null /\ ~Nullable(st.t))
                      \/ ~KeyCheck(st.t, st.id)
                   THEN SqlDone(img, 0, 0)
                   ELSE SqlDone(WithTable(img, st.t,
                                   [seq |-> Max(tbl.seq, st.id),
                                    rows |-> (st.id :> st.cell) @@ tbl.rows]), 1, st.id)
      [] st.k = "update" ->
           LET tbl == img.tab[st.t]
           IN IF ~HasTable(img, st.t) THEN SqlError(img)
              ELSE IF st.id \notin DOMAIN tbl.rows THEN SqlDone(img, 0, 0)
              ELSE IF st.cell.null /\ ~Nullable(st.t) THEN SqlError(img)
              ELSE SqlDone(WithTable(img, st.t,
                              [tbl EXCEPT !.rows[st.id] = st.cell]), 1, 0)
      [] st.k = "increment" ->
           LET tbl == img.tab[st.t]
           IN IF ~HasTable(img, st.t) THEN SqlError(img)
              ELSE IF st.id \notin DOMAIN tbl.rows THEN SqlDone(img, 0, 0)
              ELSE SqlDone(WithTable(img, st.t,
                              [tbl EXCEPT !.rows[st.id] = Num(NumOf(@) + 1)]), 1, 0)
      [] st.k = "delete" ->
           IF ~HasTable(img, st.t) THEN SqlError(img)
           ELSE SqlDone(WithTable(img, st.t, [img.tab[st.t] EXCEPT !.rows = <<>>]),
                        Cardinality(DOMAIN img.tab[st.t].rows), 0)
      [] st.k = "deleteRow" ->
           LET tbl == img.tab[st.t]
           IN IF ~HasTable(img, st.t) THEN SqlError(img)
              ELSE IF st.id \in DOMAIN tbl.rows
                   THEN SqlDone(WithTable(img, st.t,
                          [tbl EXCEPT !.rows = [i \in (DOMAIN tbl.rows) \ {st.id} |-> tbl.rows[i]]]),
                          1, 0)
                   ELSE SqlDone(img, 0, 0)
      [] OTHER -> SqlError(img)

\* db.prepare(sql) compiles the first statement of the text and ignores the
\* rest; an empty text prepares nothing and runs nothing.
Prepare(text) == IF text = <<>> THEN Malformed ELSE Head(text)

\* ------------------------------------------------------------------ state
VARIABLES
    idbMode,        \* runtime: indexedDB.open succeeds ("ok") or fails ("throws")
    fsSupported,    \* runtime: window.showDirectoryPicker is a function
    sqlMode,        \* runtime: initSqlJs resolves ("ok") or rejects ("throws")
    mobile,         \* runtime: isMobile() of the settings view
    readMode,       \* runtime: reading an existing file succeeds ("ok") or fails ("throws")
    sql,            \* StorageManager.sql is set
    db,             \* StorageManager.db: None or Some(image)
    dirHandle,      \* StorageManager.dirHandle: None or Some(directory)
    initialized,    \* StorageManager.initialized
    currentStorage, \* StorageManager.currentStorage
    files,          \* <appName>.db of each directory: None or Some(image)
    hasDirectory,   \* localStorage <appName>-directory-name: None or Some(directory)
    idbOpen,        \* IndexedDBManager.db is set
    stores,         \* the IndexedDB object stores: store -> (key -> record value)
    passes,         \* number of backend selection passes run so far
    initBy,         \* preferred argument of the call that ran the selection pass
    degraded,       \* initialize went through its all-candidates-failed fallback
    view,           \* StorageSettings state: storageInfo, error, success
    facades,        \* the app facades whose AppStorage.initialized is set
    pending,        \* initialize() calls past their guard and not yet settled
    inflight,       \* addMessage calls between their INSERT and their UPDATE
    ret             \* the last call and how its promise settled

vars == <<idbMode, fsSupported, sqlMode, mobile, readMode, sql, db, dirHandle, initialized,
          currentStorage, files, hasDirectory, idbOpen, stores, passes, initBy,
          degraded, view, facades, pending, inflight, ret>>

envVars == <<idbMode, fsSupported, sqlMode, mobile, readMode>>

\* The manager's fields and what they act on, as one value the methods
\* transform.
Cur == [sql |-> sql, db |-> db, dirHandle |-> dirHandle,
        initialized |-> initialized, currentStorage |-> currentStorage,
        files |-> files, hasDirectory |-> hasDirectory, idbOpen |-> idbOpen,
        stores |-> stores,
        passes |-> passes, initBy |-> initBy, degraded |-> degraded, view |-> view,
        facades |-> facades, pending |-> pending, inflight |-> inflight]

Becomes(m) ==
    /\ sql' = m.sql
    /\ db' = m.db
    /\ dirHandle' = m.dirHandle
    /\ initialized' = m.initialized
    /\ currentStorage' = m.currentStorage
    /\ files' = m.files
    /\ hasDirectory' = m.hasDirectory
    /\ idbOpen' = m.idbOpen
    /\ stores' = m.stores
    /\ passes' = m.passes
    /\ initBy' = m.initBy
    /\ degraded' = m.degraded
    /\ view' = m.view
    /\ facades' = m.facades
    /\ pending' = m.pending
    /\ inflight' = m.inflight

Ret(op, result) ==
    [op |-> op, result |-> result, error |-> "", tried |-> <<>>,
     before |-> None, src |-> None, value |-> <<>>, write |-> "none", failAt |-> 0]

\* ---------------------------------------------------------- StorageManager
\* saveDatabase: a no-op without image or handle; a failed write is caught
\* and logged, and leaves the file as it was.
saveDatabase(m, writeOk) ==
    IF m.db = None \/ m.dirHandle = None THEN m
    ELSE IF writeOk THEN [m EXCEPT !.files[m.dirHandle[1]] = m.db]
    ELSE m

\* initializeSQLiteFromFile, past its guard: load the file; when anything
\* in the try block throws (no such file, or the file cannot be read),
\* create an empty image and save it.
LoadOrCreate(m, writeOk) ==
    IF m.files[m.dirHandle[1]] # None /\ readMode = "ok"
    THEN [m EXCEPT !.db = m.files[m.dirHandle[1]]]
    ELSE saveDatabase([m EXCEPT !.db = Some(EmptyImage)], writeOk)

initializeSQLiteFromFile(m, writeOk) ==
    IF ~m.sql \/ m.dirHandle = None
    THEN [r |-> "throw", m |-> m]
    ELSE [r |-> "true", m |-> LoadOrCreate(m, writeOk)]

initializeSQLiteInMemory(m) ==
    IF ~m.sql THEN [r |-> "throw", m |-> m]
    ELSE [r |-> "true", m |-> [m EXCEPT !.db = Some(EmptyImage)]]

\* A tryInitializeStorage whose directory case takes the remembered
\* directory for a handle.
tryInitializeStorageRestoring(m, storageType, writeOk) ==
    CASE storageType = "indexedDB" ->
           IF idbMode = "ok"
           THEN [r |-> "true", m |-> [m EXCEPT !.idbOpen = TRUE]]
           ELSE [r |-> "throw", m |-> m]
      [] storageType = "fileSystem" ->
           IF ~fsSupported THEN [r |-> "false", m |-> m]
           ELSE IF m.dirHandle = None /\ m.hasDirectory = None THEN [r |-> "false", m |-> m]
           ELSE IF sqlMode # "ok"
           THEN [r |-> "throw",
                 m |-> [m EXCEPT !.dirHandle = IF @ = None THEN m.hasDirectory ELSE @]]
           ELSE initializeSQLiteFromFile(
                    [m EXCEPT !.sql = TRUE,
                              !.dirHandle = IF @ = None THEN m.hasDirectory ELSE @], writeOk)
      [] storageType = "localStorage" ->
           IF sqlMode # "ok" THEN [r |-> "throw", m |-> m]
           ELSE initializeSQLiteInMemory([m EXCEPT !.sql = TRUE])
      [] OTHER -> [r |-> "false", m |-> m]

\* tryInitializeStorage: "true", "false" or "throw", and the fields it left.
tryInitializeStorage(m, storageType, writeOk) ==
    CASE storageType = "indexedDB" ->
           IF idbMode = "ok"
           THEN [r |-> "true", m |-> [m EXCEPT !.idbOpen = TRUE]]
           ELSE [r |-> "throw", m |-> m]
      [] storageType = "fileSystem" ->
           IF ~fsSupported THEN [r |-> "false", m |-> m]
           ELSE IF m.dirHandle = None THEN [r |-> "false", m |-> m]
           ELSE IF sqlMode # "ok" THEN [r |-> "throw", m |-> m]
           ELSE initializeSQLiteFromFile([m EXCEPT !.sql = TRUE], writeOk)
      [] storageType = "localStorage" ->
           IF sqlMode # "ok" THEN [r |-> "throw", m |-> m]
           ELSE initializeSQLiteInMemory([m EXCEPT !.sql = TRUE])
      [] OTHER -> [r |-> "false", m |-> m]

\* A storage order that tries the directory backend first.
storageOrderDirectoryFirst(preferred) ==
    IF preferred = "none"
    THEN <<"fileSystem", "indexedDB", "localStorage">>
    ELSE <<preferred, "fileSystem", "indexedDB", "localStorage">>

storageOrder(preferred) ==
    IF preferred = "none"
    THEN <<"indexedDB", "fileSystem", "localStorage">>
    ELSE <<preferred, "indexedDB", "fileSystem", "localStorage">>

\* The for loop of initialize over the candidates left: the fields it leaves,
\* the candidates it attempted, and whether it returned (a candidate
\* succeeded) or fell out of the loop, where 'All storage methods failed' is
\* thrown.  A candidate that throws is logged and skipped.
RECURSIVE SelectBackend(_, _, _, _)
SelectBackend(m, order, tried, writeOk) ==
    IF order = <<>>
    THEN [m |-> m, tried |-> tried, r |-> "throw"]
    ELSE LET t == tryInitializeStorage(m, Head(order), writeOk)
         IN IF t.r = "true"
            THEN [m |-> [t.m EXCEPT !.currentStorage = Head(order), !.initialized = TRUE],
                  tried |-> Append(tried, Head(order)), r |-> "return"]
            ELSE SelectBackend(t.m, Tail(order), Append(tried, Head(order)), writeOk)

\* A catch block that lets the error escape: the promise rejects.
FallbackRethrow(s) ==
    [m |-> s.m, tried |-> s.tried, settled |-> "rejected"]

\* The outer catch of initialize: the ultimate fallback.
FallbackCatch(s) ==
    [m |-> [s.m EXCEPT !.currentStorage = "localStorage", !.initialized = TRUE,
                       !.degraded = TRUE],
     tried |-> s.tried, settled |-> "resolved"]

\* The selection pass of initialize, entered when not yet initialized.
SelectionPass(m, preferred, writeOk) ==
    LET s == SelectBackend(m, storageOrder(preferred), <<>>, writeOk)
        f == IF s.r = "throw" THEN FallbackCatch(s)
             ELSE [m |-> s.m, tried |-> s.tried, settled |-> "resolved"]
    IN [f EXCEPT !.m.passes = @ + 1, !.m.initBy = preferred]

\* An initialize that runs the selection pass on every call.
initializeUnguarded(m, preferred, writeOk) == SelectionPass(m, preferred, writeOk)

\* initialize(preferredStorage): returns at once when already initialized.
initialize(m, preferred, writeOk) ==
    IF m.initialized THEN [m |-> m, tried |-> <<>>, settled |-> "resolved"]
    ELSE SelectionPass(m, preferred, writeOk)

ensureInitialized(m, writeOk) == initialize(m, "none", writeOk)

Initialize(preferred) ==
    /\ \E w \in BOOLEAN :
         LET i == initialize(Cur, preferred, w)
         IN /\ Becomes(i.m)
            /\ ret' = [Ret("initialize", i.settled) EXCEPT
                          !.tried = i.tried, !.before = db]
    /\ UNCHANGED envVars

\* initialize() as the event loop runs it.  The call tests this.initialized
\* and, when it is not set, goes on to its first await: BeginInitialize.
\* What follows the awaits, the selection pass, runs later, whatever other
\* calls have done in between: FinishInitialize.
MaxPending == 2

BeginInitialize ==
    /\ ~initialized
    /\ pending < MaxPending
    /\ Becomes([Cur EXCEPT !.pending = @ + 1])
    /\ ret' = Ret("initialize.begin", "pending")
    /\ UNCHANGED envVars

FinishInitialize ==
    /\ pending > 0
    /\ \E w \in BOOLEAN :
         \E i \in {SelectionPass(Cur, "none", w)} :
            /\ Becomes([i.m EXCEPT !.pending = @ - 1])
            /\ ret' = [Ret("initialize", i.settled) EXCEPT
                          !.tried = i.tried, !.before = db]
    /\ UNCHANGED envVars

\* selectStorageDirectory: choice is what the picker yields, a directory or
\* "cancel" (the picker rejects with AbortError).
\* selectStorageDirectory(): the fields it leaves and how it settles.  The
\* picker rejects when the user cancels (choice "cancel"), and the catch
\* turns that into false.
selectStorageDirectory(m, choice, writeOk) ==
    IF ~fsSupported
    THEN [m |-> m, settled |-> "rejected", value |-> FALSE,
          error |-> "File System Access API not supported"]
    ELSE IF choice = "cancel"
    THEN [m |-> m, settled |-> "resolved", value |-> FALSE, error |-> ""]
    ELSE LET m1 == [m EXCEPT !.dirHandle = Some(choice), !.hasDirectory = Some(choice)]
             f == initializeSQLiteFromFile(m1, writeOk)
         IN IF f.r = "throw"
            THEN [m |-> m1, settled |-> "resolved", value |-> FALSE, error |-> ""]
            ELSE [m |-> [f.m EXCEPT !.currentStorage = "fileSystem"],
                  settled |-> "resolved", value |-> TRUE, error |-> ""]

\* src is what the user did in the picker, before the file of the directory
\* chosen as it was when the call was made.
SelectStorageDirectory(choice) ==
    /\ \E w \in BOOLEAN : \E r \in {selectStorageDirectory(Cur, choice, w)} :
         /\ Becomes(r.m)
         /\ ret' = [Ret("selectStorageDirectory", r.settled) EXCEPT
                       !.error = r.error, !.value = r.value, !.src = Some(choice),
                       !.before = IF choice \in Dirs THEN files[choice] ELSE None]
    /\ UNCHANGED envVars

\* getStorageType
getStorageType == currentStorage

\* execute without its auto-save.
executeNoSave(m0, text, w1, w2) ==
    LET i == ensureInitialized(m0, w1)
        m == i.m
    IN IF i.settled = "rejected" \/ m.db = None
       THEN [m |-> m, ok |-> FALSE, error |-> "Database not initialized",
             changes |-> 0, rowid |-> 0]
       ELSE LET r == RunStmt(m.db[1], Prepare(text))
            IN IF ~r.ok
               THEN [m |-> m, ok |-> FALSE, error |-> "SQL error", changes |-> 0,
                     rowid |-> 0]
               ELSE [m |-> [m EXCEPT !.db = Some(r.img)], ok |-> TRUE, error |-> "",
                     changes |-> r.changes, rowid |-> r.rowid]

\* An execute that saves the image whether or not the statement ran.
executeSaveAlways(m0, text, w1, w2) ==
    LET i == ensureInitialized(m0, w1)
        m == i.m
    IN IF i.settled = "rejected"
       THEN [m |-> m, ok |-> FALSE, error |-> "All storage methods failed",
             changes |-> 0, rowid |-> 0]
       ELSE IF m.db = None
       THEN [m |-> m, ok |-> FALSE, error |-> "Database not initialized",
             changes |-> 0, rowid |-> 0]
       ELSE LET r == RunStmt(m.db[1], Prepare(text))
                m2 == [m EXCEPT !.db = Some(r.img)]
            IN [m |-> IF m2.currentStorage = "fileSystem"
                      THEN saveDatabase(m2, w2) ELSE m2,
                ok |-> r.ok, error |-> IF r.ok THEN "" ELSE "SQL error",
                changes |-> r.changes, rowid |-> r.rowid]

\* execute(sql): the fields it leaves and how it settles.
execute(m0, text, w1, w2) ==
    LET i == ensureInitialized(m0, w1)
        m == i.m
    IN IF i.settled = "rejected"
       THEN [m |-> m, ok |-> FALSE, error |-> "All storage methods failed",
             changes |-> 0, rowid |-> 0]
       ELSE IF m.db = None
       THEN [m |-> m, ok |-> FALSE, error |-> "Database not initialized",
             changes |-> 0, rowid |-> 0]
       ELSE LET r == RunStmt(m.db[1], Prepare(text))
            IN IF ~r.ok
               THEN [m |-> m, ok |-> FALSE, error |-> "SQL error", changes |-> 0,
                     rowid |-> 0]
               ELSE LET m2 == [m EXCEPT !.db = Some(r.img)]
                    IN [m |-> IF m2.currentStorage = "fileSystem"
                              THEN saveDatabase(m2, w2) ELSE m2,
                        ok |-> TRUE, error |-> "", changes |-> r.changes,
                        rowid |-> r.rowid]

\* query("SELECT * FROM t"): the fields it leaves and the rows it returns.
query(m0, t, w1, w2) ==
    LET i == ensureInitialized(m0, w1)
        m == i.m
    IN IF i.settled = "rejected"
       THEN [m |-> m, ok |-> FALSE, error |-> "All storage methods failed", rows |-> <<>>]
       ELSE IF m.db = None
       THEN [m |-> m, ok |-> FALSE, error |-> "Database not initialized", rows |-> <<>>]
       ELSE IF ~HasTable(m.db[1], t)
       THEN [m |-> m, ok |-> FALSE, error |-> "SQL error", rows |-> <<>>]
       ELSE [m |-> IF m.currentStorage = "fileSystem" THEN saveDatabase(m, w2) ELSE m,
             ok |-> TRUE, error |-> "", rows |-> m.db[1].tab[t].rows]

\* What the file system answers to a write of the directory file in this
\* call: "none" when the directory backend is not the active one.
WriteOutcome(m, writeOk) ==
    IF m.currentStorage # "fileSystem" THEN "none"
    ELSE IF writeOk THEN "ok" ELSE "failed"

\* Keeps AUTOINCREMENT ids within the model's bound.
WithinBound(m, text) ==
    IF text = <<>> THEN TRUE
    ELSE IF Head(text).k # "insert" \/ Head(text).id # 0 THEN TRUE
    ELSE IF m.db = None THEN TRUE
    ELSE m.db[1].tab[Head(text).t].seq < MaxId

Execute(text) ==
    /\ WithinBound(Cur, text)
    /\ \E w1, w2 \in BOOLEAN :
         LET e == execute(Cur, text, w1, w2)
         IN /\ Becomes(e.m)
            /\ ret' = [Ret("execute", IF e.ok THEN "resolved" ELSE "rejected") EXCEPT
                          !.error = e.error, !.before = db,
                          !.value = <<e.changes, e.rowid>>, !.src = Some(text),
                          !.write = WriteOutcome(e.m, w2)]
    /\ UNCHANGED envVars

Query(t) ==
    /\ \E w1, w2 \in BOOLEAN :
         LET q == query(Cur, t, w1, w2)
         IN /\ Becomes(q.m)
            /\ ret' = [Ret("query", IF q.ok THEN "resolved" ELSE "rejected") EXCEPT
                          !.error = q.error, !.value = q.rows]
    /\ UNCHANGED envVars

\* TodoStorage.getSchema: the table, then its three indexes.
TodoSchema ==
    <<CreateTable("todos", TRUE), CreateIndex("idx_todos_completed", "todos"),
      CreateIndex("idx_todos_created_at", "todos"),
      CreateIndex("idx_todos_priority", "todos")>>

\* datetime('now') and new Date().toISOString(): some timestamp text.
Now == Txt(<<"t">>)

\* PomodoroStorage.getSchema: two tables, two indexes and the default
\* settings row.
PomodoroSchema ==
    <<CreateTable("pomodoro_sessions", TRUE), CreateTable("pomodoro_settings", TRUE),
      CreateIndex("idx_pomodoro_sessions_completed_at", "pomodoro_sessions"),
      CreateIndex("idx_pomodoro_sessions_type", "pomodoro_sessions"),
      InsertOrIgnore("pomodoro_settings", 1, Now)>>

\* CountdownStorage.getSchema: one table.
CountdownSchema == <<CreateTable("countdown_settings", TRUE)>>

\* ChatStorage.getSchema: two tables and three indexes.
ChatSchema ==
    <<CreateTable("chat_conversations", TRUE), CreateTable("chat_messages", TRUE),
      CreateIndex("idx_chat_messages_conversation", "chat_messages"),
      CreateIndex("idx_chat_messages_timestamp", "chat_messages"),
      CreateIndex("idx_chat_conversations_updated", "chat_conversations")>>

\* initializeAppTables(appName, schema): ensureInitialized, then execute.
InitializeAppTables(schema) ==
    /\ \E w1, w2 \in BOOLEAN :
         LET e == execute(Cur, schema, w1, w2)
         IN /\ Becomes(e.m)
            /\ ret' = [Ret("initializeAppTables", IF e.ok THEN "resolved" ELSE "rejected")
                          EXCEPT !.error = e.error, !.src = Some(schema), !.before = db]
    /\ UNCHANGED envVars

\* ------------------------------------------------------------ app facades
FacadeNames == {"countdown", "pomodoro"}
SchemaOf(app) ==
    CASE app = "countdown" -> CountdownSchema
      [] app = "pomodoro" -> PomodoroSchema
      [] OTHER -> ChatSchema

\* AppStorage.initialize: once per facade, storageManager.initialize() and
\* initializeAppTables(appName, getSchema()); the flag is set only when both
\* resolved.
facadeInitialize(m0, app, w1, w2) ==
    IF app \in m0.facades THEN [m |-> m0, ok |-> TRUE, error |-> ""]
    ELSE The({IF i.settled = "rejected"
              THEN [m |-> i.m, ok |-> FALSE, error |-> "All storage methods failed"]
              ELSE The({IF ~e.ok THEN [m |-> e.m, ok |-> FALSE, error |-> e.error]
                        ELSE [m |-> [e.m EXCEPT !.facades = @ \cup {app}],
                              ok |-> TRUE, error |-> ""]
                        : e \in {execute(i.m, SchemaOf(app), w1, w2)}})
              : i \in {initialize(m0, "none", w1)}})

\* A facade method that runs one statement: ensureInitialized of the facade,
\* then storageManager.execute.
facadeExecute(m0, app, text, w1, w2) ==
    The({IF ~f.ok THEN f
         ELSE The({[m |-> e.m, ok |-> e.ok, error |-> e.error]
                   : e \in {execute(f.m, text, w1, w2)}})
         : f \in {facadeInitialize(m0, app, w1, w2)}})

\* CountdownStorage.saveSettings(dateOfBirth, targetAge)
saveSettings(m0, dateOfBirth, w1, w2) ==
    facadeExecute(m0, "countdown",
                  <<InsertOrReplace("countdown_settings", 1, dateOfBirth)>>, w1, w2)

\* PomodoroStorage.updateSettings(settings)
updateSettings(m0, w1, w2) ==
    facadeExecute(m0, "pomodoro", <<Update("pomodoro_settings", 1, Now)>>, w1, w2)

FacadeInitialize(app) ==
    /\ \E w1, w2 \in BOOLEAN :
         \E f \in {facadeInitialize(Cur, app, w1, w2)} :
            /\ Becomes(f.m)
            /\ ret' = [Ret("facade.initialize", IF f.ok THEN "resolved" ELSE "rejected")
                          EXCEPT !.error = f.error, !.src = Some(app)]
    /\ UNCHANGED envVars

SaveSettings(dateOfBirth) ==
    /\ \E w1, w2 \in BOOLEAN :
         \E f \in {saveSettings(Cur, dateOfBirth, w1, w2)} :
            /\ Becomes(f.m)
            /\ ret' = [Ret("saveSettings", IF f.ok THEN "resolved" ELSE "rejected")
                          EXCEPT !.error = f.error, !.src = Some(dateOfBirth)]
    /\ UNCHANGED envVars

UpdateSettings ==
    /\ \E w1, w2 \in BOOLEAN :
         \E f \in {updateSettings(Cur, w1, w2)} :
            /\ Becomes(f.m)
            /\ ret' = [Ret("updateSettings", IF f.ok THEN "resolved" ELSE "rejected")
                          EXCEPT !.error = f.error]
    /\ UNCHANGED envVars

\* ------------------------------------------------------------ the SQL dump
\* The dump is a text; the model keeps it as a sequence of pieces, each a
\* run of characters that neither split(';') nor the SQL tokenizer takes
\* apart.  A character of a stored text is a piece of its own, so that a
\* quote or a semicolon inside a value is the same piece as the quote or the
\* semicolon the dump is written with.
NL == "\n"
Semi == ";"
Quote == "'"
HeaderLine == "-- Productivity Suite Data Export\n"
ExportedLine == "-- Exported: 2024-01-01T00:00:00.000Z\n"
DataComment(t) == "-- Data for table " \o t \o "\n"
\* sqlite_master.sql: the CREATE TABLE text, which SQLite stores without
\* IF NOT EXISTS.
CreateSql(t) == "CREATE TABLE " \o t \o " (id INTEGER PRIMARY KEY AUTOINCREMENT, ...)"
InsertHead(t) ==
    "INSERT INTO " \o t \o " (id, " \o (IF Nullable(t) THEN "notes" ELSE "text") \o ") VALUES ("
Comma == ", "
CloseParen == ")"
NullWord == "NULL"

\* val.replace(/'/g, "''")
RECURSIVE Escape(_)
Escape(s) ==
    IF s = <<>> THEN <<>>
    ELSE (IF Head(s) = Quote THEN <<Quote, Quote>> ELSE <<Head(s)>>) \o Escape(Tail(s))

\* A rendering that quotes every value, null included.
LiteralAlwaysQuoted(cell) ==
    <<Quote>> \o (IF cell.null THEN <<"n">> ELSE Escape(cell.s)) \o <<Quote>>

\* The rendering of one column value.
Literal(cell) ==
    IF cell.null THEN <<NullWord>> ELSE <<Quote>> \o Escape(cell.s) \o <<Quote>>

\* The INSERT lines of a table from row id i on, in row id order.
RECURSIVE InsertLines(_, _, _)
InsertLines(t, tbl, i) ==
    IF i > tbl.seq THEN <<>>
    ELSE (IF i \in DOMAIN tbl.rows
          THEN <<InsertHead(t), ToString(i), Comma>> \o Literal(tbl.rows[i])
                   \o <<CloseParen, Semi, NL>>
          ELSE <<>>) \o InsertLines(t, tbl, i + 1)

\* The part of the dump one table contributes.
TableText(img, t) ==
    <<CreateSql(t), Semi, NL, NL>>
      \o (IF DOMAIN img.tab[t].rows # {}
          THEN <<DataComment(t)>> \o InsertLines(t, img.tab[t], 1) \o <<NL>>
          ELSE <<>>)

RECURSIVE TablesText(_, _)
TablesText(img, order) ==
    IF order = <<>> THEN <<>>
    ELSE TableText(img, Head(order)) \o TablesText(img, Tail(order))

\* The table names of sqlite_master: the first AUTOINCREMENT table brings
\* the internal table sqlite_sequence with it.
SqliteSequence == "sqlite_sequence"
SqliteMaster(img) ==
    IF img.order = <<>> THEN <<>>
    ELSE <<Head(img.order), SqliteSequence>> \o Tail(img.order)

\* name NOT LIKE 'sqlite_%'
NotLikeSqlite(name) == name # SqliteSequence
UserTables(img) == SelectSeq(SqliteMaster(img), NotLikeSqlite)

\* The text exportData builds from an image.
ExportText(img) == <<HeaderLine, ExportedLine, NL>> \o TablesText(img, UserTables(img))

\* exportData(): the fields it leaves and the text it returns.  Its queries
\* save the image when the directory backend is active (wrote: one of the
\* writes went through).
exportData(m0, w1, wrote) ==
    LET i == ensureInitialized(m0, w1)
        m == i.m
    IN IF i.settled = "rejected"
       THEN [m |-> m, ok |-> FALSE, error |-> "All storage methods failed", text |-> <<>>]
       ELSE IF m.db = None
       THEN [m |-> m, ok |-> FALSE, error |-> "Database not initialized", text |-> <<>>]
       ELSE [m |-> IF m.currentStorage = "fileSystem" THEN saveDatabase(m, wrote) ELSE m,
             ok |-> TRUE, error |-> "", text |-> ExportText(m.db[1])]

\* sqlDump.split(';'): the fragments of text from position from on.
RECURSIVE SplitFrom(_, _)
SplitFrom(text, from) ==
    IF \A i \in from..Len(text) : text[i] # Semi
    THEN <<SubSeq(text, from, Len(text))>>
    ELSE The({<<SubSeq(text, from, i - 1)>> \o SplitFrom(text, i + 1) :
                i \in {j \in from..Len(text) :
                         text[j] = Semi /\ \A h \in from..(j - 1) : text[h] # Semi}})

Split(text) == SplitFrom(text, 1)

RECURSIVE TrimStart(_)
TrimStart(f) == IF f # <<>> /\ Head(f) = NL THEN TrimStart(Tail(f)) ELSE f

RECURSIVE TrimEnd(_)
TrimEnd(f) ==
    IF f # <<>> /\ f[Len(f)] = NL THEN TrimEnd(SubSeq(f, 1, Len(f) - 1)) ELSE f

\* cmd.trim()
Trim(f) == TrimEnd(TrimStart(f))

\* startsWith('--')
StartsWithDashes(f) ==
    f # <<>> /\ Head(f) \in {HeaderLine, ExportedLine} \cup {DataComment(t) : t \in AllTables}

\* The filter of importData: cmd.trim() && !cmd.trim().startsWith('--')
IsCommand(cmd) == Trim(cmd) # <<>> /\ ~StartsWithDashes(Trim(cmd))

Commands(sqlDump) == SelectSeq(Split(sqlDump), IsCommand)

\* The SQL tokenizer skips white space and comment lines before a statement.
RECURSIVE SkipComments(_)
SkipComments(f) ==
    IF f # <<>> /\ (Head(f) = NL \/ StartsWithDashes(f)) THEN SkipComments(Tail(f)) ELSE f

\* The characters of a quoted literal, between its quotes: a quote stands
\* for itself only when doubled.
RECURSIVE Unquote(_)
Unquote(inner) ==
    IF inner = <<>> THEN [ok |-> TRUE, s |-> <<>>]
    ELSE IF Head(inner) = Quote
    THEN IF Len(inner) >= 2 /\ inner[2] = Quote
         THEN LET r == Unquote(SubSeq(inner, 3, Len(inner)))
              IN [ok |-> r.ok, s |-> <<Quote>> \o r.s]
         ELSE [ok |-> FALSE, s |-> <<>>]
    ELSE LET r == Unquote(Tail(inner))
         IN [ok |-> r.ok, s |-> <<Head(inner)>> \o r.s]

ParseLiteral(v) ==
    IF v = <<NullWord>> THEN [ok |-> TRUE, cell |-> NullV]
    ELSE IF Len(v) >= 2 /\ v[1] = Quote /\ v[Len(v)] = Quote
    THEN LET r == Unquote(SubSeq(v, 2, Len(v) - 1))
         IN [ok |-> r.ok, cell |-> Txt(r.s)]
    ELSE [ok |-> FALSE, cell |-> NullV]

\* The row id a numeral denotes; 0 when the piece is not a numeral.
NumeralValue(piece) ==
    IF \E i \in 1..MaxId : ToString(i) = piece
    THEN CHOOSE i \in 1..MaxId : ToString(i) = piece
    ELSE 0

\* db.prepare(command) on a fragment of the dump: the statement it compiles
\* to, or a syntax error.
ParseCommand(command) ==
    LET f == SkipComments(command)
    IN IF \E t \in AllTables : f = <<CreateSql(t)>>
       THEN CreateTable(CHOOSE t \in AllTables : f = <<CreateSql(t)>>, FALSE)
       ELSE IF /\ Len(f) >= 5
               /\ \E t \in TableNames : f[1] = InsertHead(t)
               /\ NumeralValue(f[2]) # 0
               /\ f[3] = Comma
               /\ f[Len(f)] = CloseParen
               /\ ParseLiteral(SubSeq(f, 4, Len(f) - 1)).ok
       THEN Insert(CHOOSE t \in TableNames : f[1] = InsertHead(t), NumeralValue(f[2]),
                   ParseLiteral(SubSeq(f, 4, Len(f) - 1)).cell)
       ELSE Malformed

\* The for loop of importData from command k on: each command is trimmed
\* and executed; the first error ends the loop and is rethrown.  Nothing is
\* rolled back.
RECURSIVE RunCommands(_, _, _, _, _)
RunCommands(m, commands, k, w1, w2) ==
    IF k > Len(commands) THEN [m |-> m, ok |-> TRUE, error |-> "", failAt |-> 0]
    ELSE The({IF ~e.ok THEN [m |-> e.m, ok |-> FALSE, error |-> e.error, failAt |-> k]
              ELSE RunCommands(e.m, commands, k + 1, w1, w2) :
                e \in {execute(m, <<ParseCommand(Trim(commands[k]))>>, w1, w2)}})

\* importData(sqlDump): the fields it leaves, how it settles and, when a
\* command failed, which one.
importData(m0, sqlDump, w1, w2) ==
    LET i == ensureInitialized(m0, w1)
        m == i.m
    IN IF i.settled = "rejected"
       THEN [m |-> m, ok |-> FALSE, error |-> "All storage methods failed", failAt |-> 0]
       ELSE IF m.db = None
       THEN [m |-> m, ok |-> FALSE, error |-> "Database not initialized", failAt |-> 0]
       ELSE The({RunCommands(m, commands, 1, w1, w2) : commands \in {Commands(sqlDump)}})

ExportData ==
    /\ \E w1, wrote \in BOOLEAN :
         \E x \in {exportData(Cur, w1, wrote)} :
            /\ Becomes(x.m)
            /\ ret' = [Ret("exportData", IF x.ok THEN "resolved" ELSE "rejected") EXCEPT
                          !.error = x.error, !.value = x.text]
    /\ UNCHANGED envVars

\* importData of the dump of the dataset src; before is the image the
\* commands start from.
ImportData(src) ==
    /\ \E w1, w2 \in BOOLEAN :
         \E sqlDump \in {ExportText(src)} : \E r \in {importData(Cur, sqlDump, w1, w2)} :
            /\ Becomes(r.m)
            /\ ret' = [Ret("importData", IF r.ok THEN "resolved" ELSE "rejected") EXCEPT
                          !.error = r.error, !.before = ensureInitialized(Cur, w1).m.db,
                          !.src = Some(src), !.failAt = r.failAt]
    /\ UNCHANGED envVars

\* -------------------------------------------------------- IndexedDBManager
\* A record of an object store: its key (keyPath id) and its content.
IdbRecord(id, v) == [id |-> id, v |-> v]

\* A backup bundle: whether it has a stores property, and the entries of
\* that property in their own order, each a store name with its array.
Bundle(entries) == [hasStores |-> TRUE, stores |-> entries]
NoStoresBundle == [hasStores |-> FALSE, stores |-> <<>>]

\* IndexedDBManager.ensureInitialized: opens the database when it is not open.
idbEnsureInitialized(m) ==
    IF m.idbOpen THEN [ok |-> TRUE, m |-> m]
    ELSE IF idbMode = "ok" THEN [ok |-> TRUE, m |-> [m EXCEPT !.idbOpen = TRUE]]
    ELSE [ok |-> FALSE, m |-> m]

\* add(storeName, data): rejects on a store the schema does not have and on
\* a key the store already holds.
idbAdd(st, storeName, data) ==
    IF storeName \notin StoreNames THEN [ok |-> FALSE, st |-> st]
    ELSE IF data.id \in DOMAIN st[storeName] THEN [ok |-> FALSE, st |-> st]
    ELSE [ok |-> TRUE, st |-> [st EXCEPT ![storeName] = (data.id :> data.v) @@ @]]

\* clear(storeName)
idbClear(st, storeName) ==
    IF storeName \notin StoreNames THEN [ok |-> FALSE, st |-> st]
    ELSE [ok |-> TRUE, st |-> [st EXCEPT ![storeName] = <<>>]]

\* The first loop of importData, from entry k on: clear every named store.
RECURSIVE ClearNamed(_, _, _)
ClearNamed(st, entries, k) ==
    IF k > Len(entries) THEN [ok |-> TRUE, st |-> st, failAt |-> 0]
    ELSE The({IF ~c.ok THEN [ok |-> FALSE, st |-> st, failAt |-> k]
              ELSE ClearNamed(c.st, entries, k + 1) :
                c \in {idbClear(st, entries[k].name)}})

\* The inner loop of importData: add the items of one entry, from item i on.
RECURSIVE AddItems(_, _, _, _)
AddItems(st, storeName, items, i) ==
    IF i > Len(items) THEN [ok |-> TRUE, st |-> st, item |-> 0]
    ELSE The({IF ~a.ok THEN [ok |-> FALSE, st |-> st, item |-> i]
              ELSE AddItems(a.st, storeName, items, i + 1) :
                a \in {idbAdd(st, storeName, items[i])}})

\* The second loop of importData, from entry k on.
RECURSIVE AddNamed(_, _, _)
AddNamed(st, entries, k) ==
    IF k > Len(entries) THEN [ok |-> TRUE, st |-> st, failAt |-> 0, item |-> 0]
    ELSE The({IF ~a.ok THEN [ok |-> FALSE, st |-> a.st, failAt |-> k, item |-> a.item]
              ELSE AddNamed(a.st, entries, k + 1) :
                a \in {AddItems(st, entries[k].name, entries[k].items, 1)}})

\* A loop that clears each store just before it reloads it.
RECURSIVE ClearAndAddNamed(_, _, _)
ClearAndAddNamed(st, entries, k) ==
    IF k > Len(entries) THEN [ok |-> TRUE, st |-> st, failAt |-> 0, item |-> 0]
    ELSE IF ~idbClear(st, entries[k].name).ok
    THEN [ok |-> FALSE, st |-> st, failAt |-> k, item |-> 0]
    ELSE The({IF ~a.ok THEN [ok |-> FALSE, st |-> a.st, failAt |-> k, item |-> a.item]
              ELSE ClearAndAddNamed(a.st, entries, k + 1) :
                a \in {AddItems(idbClear(st, entries[k].name).st, entries[k].name,
                                entries[k].items, 1)}})

IdbResult(m, ok, error, failAt, item) ==
    [m |-> m, ok |-> ok, error |-> error, failAt |-> failAt, item |-> item]

\* An import that works store by store.
idbImportDataStoreByStore(m0, data) ==
    LET i == idbEnsureInitialized(m0)
        m == i.m
    IN IF ~i.ok THEN IdbResult(m, FALSE, "Failed to open IndexedDB", 0, 0)
       ELSE IF ~data.hasStores THEN IdbResult(m, FALSE, "Invalid import data format", 0, 0)
       ELSE LET a == ClearAndAddNamed(m.stores, data.stores, 1)
            IN IdbResult([m EXCEPT !.stores = a.st], a.ok,
                         IF a.ok THEN "" ELSE IF a.item = 0 THEN "clear" ELSE "add",
                         a.failAt, a.item)

\* An import that empties every store before it looks at the bundle.
idbImportDataClearFirst(m0, data) ==
    LET i == idbEnsureInitialized(m0)
        m == i.m
    IN IF ~i.ok THEN IdbResult(m, FALSE, "Failed to open IndexedDB", 0, 0)
       ELSE IF ~data.hasStores
       THEN IdbResult([m EXCEPT !.stores = [n \in StoreNames |-> <<>>]], FALSE,
                      "Invalid import data format", 0, 0)
       ELSE The({IdbResult([m EXCEPT !.stores = a.st], a.ok,
                           IF a.ok THEN "" ELSE "add", a.failAt, a.item) :
                   a \in {AddNamed([n \in StoreNames |-> <<>>], data.stores, 1)}})

\* An import that adds the items without clearing the stores first.
idbImportDataNoClear(m0, data) ==
    LET i == idbEnsureInitialized(m0)
        m == i.m
    IN IF ~i.ok THEN IdbResult(m, FALSE, "Failed to open IndexedDB", 0, 0)
       ELSE IF ~data.hasStores THEN IdbResult(m, FALSE, "Invalid import data format", 0, 0)
       ELSE The({IdbResult([m EXCEPT !.stores = a.st], a.ok,
                           IF a.ok THEN "" ELSE "add", a.failAt, a.item) :
                   a \in {AddNamed(m.stores, data.stores, 1)}})

\* IndexedDBManager.importData(data): clears every store the bundle names,
\* then adds the items entry by entry; the first rejection ends the call
\* with the stores as they are by then.
idbImportData(m0, data) ==
    LET i == idbEnsureInitialized(m0)
        m == i.m
    IN IF ~i.ok THEN IdbResult(m, FALSE, "Failed to open IndexedDB", 0, 0)
       ELSE IF ~data.hasStores THEN IdbResult(m, FALSE, "Invalid import data format", 0, 0)
       ELSE LET c == ClearNamed(m.stores, data.stores, 1)
                a == AddNamed(c.st, data.stores, 1)
            IN IF ~c.ok
               THEN IdbResult([m EXCEPT !.stores = c.st], FALSE, "clear", c.failAt, 0)
               ELSE IdbResult([m EXCEPT !.stores = a.st], a.ok,
                              IF a.ok THEN "" ELSE "add", a.failAt, a.item)

\* The stores of the schema, in the order it declares them.
StoreOrder == <<"todos", "chat_messages">>

\* getAll(storeName): the records of a store in key order.
GetAll(store) ==
    [k \in 1..Cardinality(DOMAIN store) |->
        The({IdbRecord(id, store[id]) :
               id \in {x \in DOMAIN store :
                          Cardinality({y \in DOMAIN store : y < x}) = k - 1}})]

\* The bundle exportData builds: one entry per store of the schema.
ExportBundle(st) ==
    Bundle([j \in DOMAIN StoreOrder |-> [name |-> StoreOrder[j], items |-> GetAll(st[StoreOrder[j]])]])

\* IndexedDBManager.exportData()
idbExportData(m0) ==
    LET i == idbEnsureInitialized(m0)
    IN IF ~i.ok THEN [m |-> i.m, ok |-> FALSE, value |-> <<>>]
       ELSE [m |-> i.m, ok |-> TRUE, value |-> <<ExportBundle(i.m.stores)>>]

IdbExportData ==
    /\ \E x \in {idbExportData(Cur)} :
          /\ Becomes(x.m)
          /\ ret' = [Ret("idb.exportData", IF x.ok THEN "resolved" ELSE "rejected")
                        EXCEPT !.value = x.value]
    /\ UNCHANGED envVars

\* add(storeName, data) as a call of its own.
IdbAdd(storeName, data) ==
    /\ LET i == idbEnsureInitialized(Cur)
           a == idbAdd(i.m.stores, storeName, data)
       IN /\ Becomes(IF i.ok THEN [i.m EXCEPT !.stores = a.st] ELSE i.m)
          /\ ret' = [Ret("idb.add", IF i.ok /\ a.ok THEN "resolved" ELSE "rejected")
                        EXCEPT !.src = Some(data)]
    /\ UNCHANGED envVars

\* importData(data); before is the content of the stores when it is called,
\* src the bundle a call that found the database open was given.
IdbImportData(data) ==
    /\ \E r \in {idbImportData(Cur, data)} :
          /\ Becomes(r.m)
          /\ ret' = [Ret("idb.importData", IF r.ok THEN "resolved" ELSE "rejected")
                        EXCEPT !.error = r.error, !.before = Some(stores),
                               !.src = IF r.m.idbOpen \/ ~data.hasStores
                                       THEN Some(data) ELSE None,
                               !.failAt = r.failAt, !.value = <<r.item>>]
    /\ UNCHANGED envVars

\* ------------------------------------------------------- quota and status
\* navigator.storage.estimate(): the capability is absent, or the promise
\* rejects, or it resolves to an estimate whose quota and usage may be
\* missing (None).
NoEstimate == [kind |-> "absent", quota |-> None, usage |-> None]
RejectedEstimate == [kind |-> "rejects", quota |-> None, usage |-> None]
Estimate(quota, usage) == [kind |-> "value", quota |-> quota, usage |-> usage]

\* x || 0
OrZero(x) == IF x = None THEN 0 ELSE x[1]

RECURSIVE Gcd(_, _)
Gcd(a, b) == IF b = 0 THEN a ELSE Gcd(b, a % b)

\* A non-negative number that need not be whole, as a fraction in lowest
\* terms.  The arithmetic of the model is exact; the rounding of the
\* double-precision quotient is not modelled.
Whole(n) == [num |-> n, den |-> 1]
Quotient(a, b) == [num |-> a \div Gcd(a, b), den |-> b \div Gcd(a, b)]
Times(r, k) == [num |-> r.num * (k \div Gcd(k, r.den)), den |-> r.den \div Gcd(k, r.den)]

\* A quota computation that fails without the estimate capability.
getStorageQuotaStrict(est) ==
    IF est.kind \in {"absent", "rejects"}
    THEN [ok |-> FALSE, quota |-> 0, usage |-> 0, available |-> 0, percentage |-> Whole(0)]
    ELSE [ok |-> TRUE, quota |-> OrZero(est.quota), usage |-> OrZero(est.usage),
          available |-> OrZero(est.quota) - OrZero(est.usage),
          percentage |-> IF OrZero(est.quota) > 0
                         THEN Times(Quotient(OrZero(est.usage), OrZero(est.quota)), 100)
                         ELSE Whole(0)]

\* A quota computation that leaves the ratio as it is.
getStorageQuotaAsRatio(est) ==
    IF est.kind = "absent"
    THEN [ok |-> TRUE, quota |-> 0, usage |-> 0, available |-> 0, percentage |-> Whole(0)]
    ELSE IF est.kind = "rejects"
    THEN [ok |-> FALSE, quota |-> 0, usage |-> 0, available |-> 0, percentage |-> Whole(0)]
    ELSE [ok |-> TRUE, quota |-> OrZero(est.quota), usage |-> OrZero(est.usage),
          available |-> OrZero(est.quota) - OrZero(est.usage),
          percentage |-> IF OrZero(est.quota) > 0
                         THEN Quotient(OrZero(est.usage), OrZero(est.quota))
                         ELSE Whole(0)]

\* IndexedDBManager.getStorageQuota(): the StorageQuota it resolves to, or a
\* rejection (ok FALSE) when the estimate rejects.
getStorageQuota(est) ==
    IF est.kind = "absent"
    THEN [ok |-> TRUE, quota |-> 0, usage |-> 0, available |-> 0, percentage |-> Whole(0)]
    ELSE IF est.kind = "rejects"
    THEN [ok |-> FALSE, quota |-> 0, usage |-> 0, available |-> 0, percentage |-> Whole(0)]
    ELSE [ok |-> TRUE, quota |-> OrZero(est.quota), usage |-> OrZero(est.usage),
          available |-> OrZero(est.quota) - OrZero(est.usage),
          percentage |-> IF OrZero(est.quota) > 0
                         THEN Times(Quotient(OrZero(est.usage), OrZero(est.quota)), 100)
                         ELSE Whole(0)]

\* 1024 * 1024 * 1024
GB == 1073741824

\* StorageManager.getStorageInfo(): the info it resolves to.  size is the
\* wording chosen, without its figures.
getStorageInfo(m, est) ==
    IF m.currentStorage = "indexedDB"
    THEN LET q == getStorageQuota(est)
         IN IF ~q.ok
            THEN [type |-> m.currentStorage, location |-> "Browser IndexedDB",
                  size |-> "0 KB", available |-> FALSE, quota |-> None]
            ELSE [type |-> m.currentStorage, location |-> "Browser IndexedDB",
                  size |-> IF q.quota > 0
                           THEN IF q.usage < GB THEN "MB of GB (%)" ELSE "GB of GB (%)"
                           ELSE "Quota unavailable",
                  available |-> TRUE, quota |-> Some(q)]
    ELSE IF m.currentStorage = "fileSystem" /\ m.dirHandle # None
    THEN [type |-> m.currentStorage, location |-> m.dirHandle[1],
          size |-> IF m.files[m.dirHandle[1]] # None THEN "KB" ELSE "New database",
          available |-> TRUE, quota |-> None]
    ELSE [type |-> m.currentStorage, location |-> "Browser localStorage",
          size |-> "KB of ~5-10MB (%)", available |-> TRUE, quota |-> None]

GetStorageQuota(est) ==
    /\ Becomes(Cur)
    /\ ret' = [Ret("getStorageQuota", IF getStorageQuota(est).ok THEN "resolved" ELSE "rejected")
                  EXCEPT !.src = Some(est), !.value = getStorageQuota(est)]
    /\ UNCHANGED envVars

GetStorageInfo(est) ==
    /\ Becomes(Cur)
    /\ ret' = [Ret("getStorageInfo", "resolved") EXCEPT
                  !.src = Some(est), !.value = getStorageInfo(Cur, est)]
    /\ UNCHANGED envVars

\* ------------------------------------------------------ StorageSettings
\* loadStorageInfo: getStorageInfo never rejects, so its catch is not taken.
loadStorageInfo(v, m, est) == [v EXCEPT !.storageInfo = Some(getStorageInfo(m, est))]

MobileMessage == "File storage is not available on mobile devices"
NotSupportedMessage == "File System Access not supported in this browser"
FailedMessage == "Failed to select storage directory"
SelectedMessage == "Storage directory selected"

\* The view after handleSelectDirectory, given how selectStorageDirectory
\* settled (r): a thrown error whose message includes 'not supported' is the
\* only rejection the manager produces.
AfterSelect(v, r, est) ==
    IF r.settled = "rejected"
    THEN [v EXCEPT !.error = NotSupportedMessage]
    ELSE IF r.value
    THEN loadStorageInfo([v EXCEPT !.error = "", !.success = SelectedMessage], r.m, est)
    ELSE [v EXCEPT !.error = FailedMessage]

\* handleSelectDirectory
HandleSelectDirectory(choice, est) ==
    /\ IF mobile
       THEN /\ Becomes([Cur EXCEPT !.view.error = MobileMessage])
            /\ ret' = Ret("handleSelectDirectory", "resolved")
       ELSE \E w \in BOOLEAN : \E r \in {selectStorageDirectory(Cur, choice, w)} :
              /\ Becomes([r.m EXCEPT !.view = AfterSelect(view, r, est)])
              /\ ret' = [Ret("handleSelectDirectory", "resolved") EXCEPT
                            !.src = Some(choice), !.value = r.value]
    /\ UNCHANGED envVars

\* The effect of opening the view: loadStorageInfo.
LoadStorageInfo(est) ==
    /\ Becomes([Cur EXCEPT !.view = loadStorageInfo(view, Cur, est)])
    /\ ret' = Ret("loadStorageInfo", "resolved")
    /\ UNCHANGED envVars

\* ------------------------------------------------------------ specification
\* A session starts with the manager constructed, in any runtime, with the
\* directory files and the remembered directory name a previous session left.
InitSession ==
    /\ idbMode \in {"ok", "throws"}
    /\ fsSupported \in BOOLEAN
    /\ sqlMode \in {"ok", "throws"}
    /\ readMode \in {"ok", "throws"}
    /\ sql = FALSE
    /\ db = None
    /\ dirHandle = None
    /\ initialized = FALSE
    /\ currentStorage = "localStorage"
    /\ files = [d \in Dirs |-> None]
    /\ hasDirectory \in {None, Some("Documents")}
    /\ idbOpen = FALSE
    /\ stores = [n \in StoreNames |-> <<>>]
    /\ passes = 0
    /\ initBy = "unset"
    /\ degraded = FALSE
    /\ view = [storageInfo |-> None, error |-> "", success |-> ""]
    /\ facades = {}
    /\ pending = 0
    /\ inflight = <<>>
    /\ ret = Ret("new", "resolved")

\* A session on a desktop browser.
Init == InitSession /\ mobile = FALSE

SpecStatements ==
    {<<Insert("todos", 0, BuyMilk)>>, <<Insert("todos", 0, NullV)>>,
     <<DeleteRow("todos", 1)>>, <<Malformed>>}

Next ==
    \/ \E p \in Prefs : Initialize(p)
    \/ \E c \in Dirs \cup {"cancel"} : SelectStorageDirectory(c)
    \/ InitializeAppTables(TodoSchema)
    \/ \E s \in SpecStatements : Execute(s)
    \/ Query("todos")

Spec == Init /\ [][Next]_vars

\* ------------------------------------------- specification of the backups
\* A runtime without directory picker and with a working SQL engine: with a
\* working IndexedDB the key-value backend is the active one, without it the
\* in-memory image is.
InitBackup ==
    /\ Init
    /\ readMode = "ok"
    /\ ~fsSupported
    /\ sqlMode = "ok"
    /\ hasDirectory = None

\* The image a sequence of statements builds, each run in turn.
RECURSIVE Build(_, _)
Build(img, stmts) ==
    IF stmts = <<>> THEN img ELSE Build(RunStmt(img, Head(stmts)).img, Tail(stmts))

\* Datasets a backup file can come from.
QuotedTodos ==
    Build(EmptyImage, <<CreateTable("todos", TRUE), Insert("todos", 0, OBrien),
                        Insert("todos", 0, OBrien)>>)
TodosAndSessions ==
    Build(EmptyImage, <<CreateTable("pomodoro_sessions", TRUE), CreateTable("todos", TRUE),
                        Insert("pomodoro_sessions", 0, NullV),
                        Insert("todos", 0, OBrien), Insert("todos", 0, SemiText)>>)
SampleImages == {QuotedTodos, TodosAndSessions}

BackupStatements ==
    {<<Insert("todos", 0, c)>> : c \in {OBrien, SemiText}}
      \cup {<<Insert("pomodoro_sessions", 0, c)>> : c \in {NullV, Txt(<<"n">>)}}
      \cup {<<DeleteAll(t)>> : t \in TableNames}
      \cup {<<DeleteRow(t, 1)>> : t \in TableNames}

\* The names a bundle uses: the stores, and one that is not a store.
BundleNames == StoreNames \cup {"notes"}
\* Arrays of records a bundle carries for one store: the last one repeats a
\* key.
ItemLists ==
    {<<>>, <<IdbRecord(1, "b")>>, <<IdbRecord(1, "b"), IdbRecord(2, "b")>>,
     <<IdbRecord(1, "b"), IdbRecord(1, "b")>>}
BundleEntries == [name : BundleNames, items : ItemLists]
\* Bundles of up to two entries; an entry of a bundle of two carries one
\* record, or the same record twice.
PairItemLists == {l \in ItemLists : l # <<>> /\ l[Len(l)].id = 1}
Bundles ==
    {NoStoresBundle, Bundle(<<>>)}
      \cup {Bundle(<<e>>) : e \in BundleEntries}
      \cup {Bundle(<<[name |-> q[1], items |-> q[3]], [name |-> q[2], items |-> q[4]]>>) :
                q \in {p \in BundleNames \X BundleNames \X PairItemLists \X PairItemLists :
                          p[1] # p[2]}}

NextBackup ==
    \/ Initialize("none")
    \/ \E schema \in {TodoSchema, PomodoroSchema} : InitializeAppTables(schema)
    \/ \E s \in BackupStatements : Execute(s)
    \/ ExportData
    \/ \E src \in SampleImages \cup {db[i] : i \in DOMAIN db} : ImportData(src)
    \/ \E n \in StoreNames, id \in 1..MaxId : IdbAdd(n, IdbRecord(id, "a"))
    \/ IdbExportData
    \/ \E data \in Bundles \cup {ExportBundle(stores)} : IdbImportData(data)

SpecBackup == InitBackup /\ [][NextBackup]_vars

\* -------------------------------------------------------- PomodoroStorage
\* Calendar days are numbered; sessions fall on days 1..MaxDay.
MaxDay == 3
SessionTypes == {"work", "shortBreak"}
\* The type and completed_at columns of a pomodoro_sessions row.
Session(type, day) == Txt(<<type, ToString(day)>>)
DayOf(cell) == CHOOSE d \in 1..MaxDay : cell.s[2] = ToString(d)

\* SELECT DATE(completed_at) ... WHERE type = 'work' GROUP BY DATE(completed_at):
\* the days that have a work session.
WorkDays(img) ==
    {DayOf(img.tab["pomodoro_sessions"].rows[id]) :
        id \in {x \in DOMAIN img.tab["pomodoro_sessions"].rows :
                  img.tab["pomodoro_sessions"].rows[x].s[1] = "work"}}

\* ORDER BY DATE(completed_at) DESC
Descending(S) ==
    [k \in 1..Cardinality(S) |->
        The({d \in S : Cardinality({x \in S : x > d}) = k - 1})]

\* new Date(row.date) followed by setHours(0, 0, 0, 0): the date text is
\* read as midnight UTC, and setHours moves that instant to the midnight
\* that starts its local day, which west of Greenwich is the day before.
ZoneShifts == {0, -1}
LocalDay(day, zone) == day + zone

\* The streak loop from row k on; currentDate starts at today.  The branch
\* commented 'Yesterday' compares with currentDate plus 24 hours.
RECURSIVE StreakLoop(_, _, _, _, _)
StreakLoop(rows, k, currentDate, streak, zone) ==
    IF k > Len(rows) THEN streak
    ELSE IF LocalDay(rows[k], zone) = currentDate
    THEN StreakLoop(rows, k + 1, currentDate - 1, streak + 1, zone)
    ELSE IF LocalDay(rows[k], zone) = currentDate + 1
    THEN StreakLoop(rows, k + 1, currentDate - 1, streak + 1, zone)
    ELSE streak

\* PomodoroStorage.getSessionStats(): the fields it leaves and the streak.
getSessionStats(m0, today, zone, w1, w2) ==
    The({IF ~f.ok THEN [m |-> f.m, ok |-> FALSE, error |-> f.error, streak |-> 0]
         ELSE The({IF ~q.ok
                   THEN [m |-> q.m, ok |-> FALSE, error |-> q.error, streak |-> 0]
                   ELSE [m |-> q.m, ok |-> TRUE, error |-> "",
                         streak |-> StreakLoop(Descending(WorkDays(q.m.db[1])), 1,
                                               today, 0, zone)]
                   : q \in {query(f.m, "pomodoro_sessions", w1, w2)}})
         : f \in {facadeInitialize(m0, "pomodoro", w1, w2)}})

\* PomodoroStorage.addSession(session)
AddSession(type, day) ==
    /\ db # None => db[1].tab["pomodoro_sessions"].seq < MaxId
    /\ \E w1, w2 \in BOOLEAN :
         \E f \in {facadeExecute(Cur, "pomodoro",
                                 <<Insert("pomodoro_sessions", 0, Session(type, day))>>,
                                 w1, w2)} :
            /\ Becomes(f.m)
            /\ ret' = [Ret("addSession", IF f.ok THEN "resolved" ELSE "rejected")
                          EXCEPT !.error = f.error]
    /\ UNCHANGED envVars

GetSessionStats(today, zone) ==
    /\ \E w1, w2 \in BOOLEAN :
         \E g \in {getSessionStats(Cur, today, zone, w1, w2)} :
            /\ Becomes(g.m)
            /\ ret' = [Ret("getSessionStats", IF g.ok THEN "resolved" ELSE "rejected")
                          EXCEPT !.error = g.error, !.src = Some(<<today, zone>>),
                                 !.value = <<g.streak>>]
    /\ UNCHANGED envVars

\* ------------------------------------------------------------ ChatStorage
\* crypto.randomUUID(): an id no conversation was given before.  The ids
\* given so far are 1..seq of chat_conversations.
Conversations(m) == m.db[1].tab["chat_conversations"]
Messages(m) == m.db[1].tab["chat_messages"]
\* A conversation id that createConversation never returns.
GhostId == MaxId + 1
MaxInflight == 2

\* An UPDATE whose WHERE matches no row.
addMessageUpdateNoRow(conv) == <<Increment("chat_conversations", GhostId)>>

\* The UPDATE of addMessage.
addMessageUpdate(conv) == <<Increment("chat_conversations", conv)>>

\* ChatStorage.createConversation(title)
CreateConversation ==
    /\ db # None => Conversations(Cur).seq < MaxId
    /\ \E w1, w2 \in BOOLEAN :
         \E id \in {IF db = None THEN 1 ELSE Conversations(Cur).seq + 1} :
         \E f \in {facadeExecute(Cur, "chat",
                                 <<Insert("chat_conversations", id, Num(0))>>, w1, w2)} :
            /\ Becomes(f.m)
            /\ ret' = [Ret("createConversation", IF f.ok THEN "resolved" ELSE "rejected")
                          EXCEPT !.error = f.error, !.value = <<id>>]
    /\ UNCHANGED envVars

\* ChatStorage.addMessage(message), up to the await of its INSERT: a
\* rejected INSERT ends the call.  The conversation id is one that
\* createConversation returned, or one made up.
BeginAddMessage(conv) ==
    /\ Len(inflight) < MaxInflight
    /\ IF conv = GhostId THEN TRUE
       ELSE IF db = None THEN FALSE
       ELSE conv <= Conversations(Cur).seq
    /\ db # None => Messages(Cur).seq < MaxId
    /\ \E w1, w2 \in BOOLEAN :
         \E f \in {facadeExecute(Cur, "chat",
                                 <<Insert("chat_messages", 0, Num(conv))>>, w1, w2)} :
            /\ Becomes(IF f.ok THEN [f.m EXCEPT !.inflight = Append(@, conv)] ELSE f.m)
            /\ ret' = [Ret("addMessage.insert", IF f.ok THEN "pending" ELSE "rejected")
                          EXCEPT !.error = f.error, !.src = Some(conv)]
    /\ UNCHANGED envVars

\* The rest of the k-th addMessage in flight: its UPDATE, and the call
\* settles.
FinishAddMessage(k) ==
    /\ k \in DOMAIN inflight
    /\ \E w1, w2 \in BOOLEAN :
         \E e \in {execute(Cur, addMessageUpdate(inflight[k]), w1, w2)} :
            /\ Becomes([e.m EXCEPT !.inflight =
                            SubSeq(@, 1, k - 1) \o SubSeq(@, k + 1, Len(@))])
            /\ ret' = [Ret("addMessage", IF e.ok THEN "resolved" ELSE "rejected")
                          EXCEPT !.error = e.error, !.src = Some(inflight[k])]
    /\ UNCHANGED envVars

\* ChatStorage.deleteConversation(conversationId)
DeleteConversation(conv) ==
    /\ \E w1, w2 \in BOOLEAN :
         \E f \in {facadeExecute(Cur, "chat",
                                 <<DeleteRow("chat_conversations", conv)>>, w1, w2)} :
            /\ Becomes(f.m)
            /\ ret' = [Ret("deleteConversation", IF f.ok THEN "resolved" ELSE "rejected")
                          EXCEPT !.error = f.error, !.src = Some(conv)]
    /\ UNCHANGED envVars

\* ---------------------------------------- specification of the app facades
\* The facades, the schemas they declare and the backend choices under them.
Birthdays == {Txt(<<"a">>), Txt(<<"b">>), NullV}

InitFacade == Init /\ hasDirectory = None /\ readMode = "ok"

NextFacade ==
    \/ Initialize("none")
    \/ SelectStorageDirectory("Documents")
    \/ \E app \in FacadeNames : FacadeInitialize(app)
    \/ \E d \in Birthdays : SaveSettings(d)
    \/ UpdateSettings
    \/ \E schema \in {PomodoroSchema, CountdownSchema} : InitializeAppTables(schema)
    \/ \E t \in {"pomodoro_sessions", "countdown_settings"} :
          Execute(<<Insert(t, 0, Now)>>)

SpecFacade == InitFacade /\ [][NextFacade]_vars

\* ------------------------------------ specification of overlapping calls
\* initialize() calls that overlap, on a runtime without directory picker,
\* with the statements of the todo facade between them.
InitOverlap == Init /\ ~fsSupported /\ readMode = "ok" /\ hasDirectory = None

NextOverlap ==
    \/ BeginInitialize
    \/ FinishInitialize
    \/ InitializeAppTables(TodoSchema)
    \/ \E s \in SpecStatements : Execute(s)

SpecOverlap == InitOverlap /\ [][NextOverlap]_vars

\* --------------------------------------- specification of the session stats
\* The pomodoro facade on the in-memory backend; today is the last day
\* sessions can fall on, or the day after.
InitStreak ==
    /\ Init
    /\ ~fsSupported
    /\ idbMode = "throws"
    /\ sqlMode = "ok"
    /\ readMode = "ok"
    /\ hasDirectory = None

NextStreak ==
    \/ FacadeInitialize("pomodoro")
    \/ \E type \in SessionTypes, day \in 1..MaxDay : AddSession(type, day)
    \/ \E today \in {MaxDay, MaxDay + 1}, zone \in ZoneShifts : GetSessionStats(today, zone)

SpecStreak == InitStreak /\ [][NextStreak]_vars

\* ------------------------------------------ specification of the chat data
\* The chat facade on the in-memory backend.  Its own schema call creates
\* chat_conversations; chat_messages comes with a backup of a database that
\* has both tables.
InitChat ==
    /\ Init
    /\ ~fsSupported
    /\ idbMode = "throws"
    /\ sqlMode = "ok"
    /\ readMode = "ok"
    /\ hasDirectory = None

ChatBackup ==
    Build(EmptyImage, <<CreateTable("chat_conversations", TRUE),
                        CreateTable("chat_messages", TRUE)>>)

NextChat ==
    \/ FacadeInitialize("chat")
    \/ ImportData(ChatBackup)
    \/ CreateConversation
    \/ \E conv \in 1..GhostId : BeginAddMessage(conv)
    \/ \E k \in 1..MaxInflight : FinishAddMessage(k)
    \/ \E conv \in 1..MaxId : DeleteConversation(conv)

SpecChat == InitChat /\ [][NextChat]_vars

\* --------------------------------------- specification of the settings view
InitSettings == InitSession /\ mobile \in BOOLEAN /\ hasDirectory = None /\ readMode = "ok"

\* Answers of navigator.storage.estimate().
Estimates ==
    {NoEstimate, RejectedEstimate,
     Estimate(Some(2000000000), Some(500000000)),
     Estimate(Some(2000000000), Some(1500000000)),
     Estimate(Some(3), Some(1)),
     Estimate(Some(0), Some(0)),
     Estimate(None, Some(5))}

NextSettings ==
    \/ \E p \in Prefs : Initialize(p)
    \/ \E c \in Dirs \cup {"cancel"}, est \in Estimates : HandleSelectDirectory(c, est)
    \/ \E est \in Estimates : LoadStorageInfo(est)
    \/ \E est \in Estimates : GetStorageInfo(est)
    \/ \E est \in Estimates : GetStorageQuota(est)

SpecSettings == InitSettings /\ [][NextSettings]_vars

\* ------------------------------------------------- claims on the selector
SqlSurfaceCalls == {"initializeAppTables", "execute", "query"}

\* C1: in a fresh session where the key-value backend is supported and no
\* directory was granted, once initialize() has made the key-value backend
\* the active one, initializeAppTables, execute and query all resolve.
C1_SqlSurfaceWorksOnKeyValueBackend ==
    (/\ idbMode = "ok"
     /\ initBy = "none"
     /\ currentStorage = "indexedDB"
     /\ dirHandle = None
     /\ ret.op \in SqlSurfaceCalls
     /\ ret.src # Some(<<Malformed>>))
    => ret.error # "Database not initialized"

\* C2: after initialize() with no preferred backend, in a runtime where the
\* key-value backend initializes, getStorageType() is 'indexedDB', with or
\* without the directory API.
C2_KeyValueBackendPreferred ==
    (initBy = "none" /\ idbMode = "ok") => getStorageType = "indexedDB"

C2_Witness ==
    /\ initBy = "none"
    /\ idbMode = "ok"
    /\ fsSupported
    /\ sqlMode = "ok"
    /\ dirHandle # None
    /\ getStorageType = "indexedDB"

\* An initialize() call that ran the selection pass has just settled.
PassJustRan == ret.op = "initialize" /\ ret.tried # <<>>

\* C3: where the key-value backend's initialization throws and the directory
\* API is unsupported, initialize() resolves, getStorageType() is
\* 'localStorage' and an empty in-memory relational image was created.
C3_FallbackCreatesInMemoryImage ==
    (PassJustRan /\ idbMode = "throws" /\ ~fsSupported)
    => /\ ret.result = "resolved"
       /\ getStorageType = "localStorage"
       /\ db = Some(EmptyImage)

\* C4: for every preferred argument and every outcome of every candidate,
\* initialize() resolves and leaves the manager initialized; when every
\* candidate failed, the backend reported is 'localStorage'.
C4_InitializeNeverRejects ==
    (ret.op = "initialize")
    => /\ ret.result = "resolved"
       /\ initialized
       /\ (idbMode = "throws" /\ sqlMode = "throws") => getStorageType = "localStorage"

C4_Witness ==
    /\ PassJustRan
    /\ Len(ret.tried) = 4
    /\ degraded
    /\ initialized
    /\ getStorageType = "localStorage"

\* C5: after initialize() resolved through the all-candidates-failed
\* fallback, query() and execute() work on an in-memory relational image and
\* do not reject with 'Database not initialized'.
C5_DegradedModeKeepsWorking ==
    (degraded /\ ret.op \in {"query", "execute"})
    => (db # None /\ ret.error # "Database not initialized")

\* C6: a second initialize() is a no-op: it attempts no backend and leaves
\* the active backend, the relational image and the directory handle as they
\* were, so there is exactly one selection pass.
C6_SecondInitializeIsNoOp ==
    [][(initialized /\ ret'.op = "initialize")
       => /\ ret'.tried = <<>>
          /\ currentStorage' = currentStorage
          /\ db' = db
          /\ dirHandle' = dirHandle
          /\ files' = files
          /\ passes' = passes
          /\ passes = 1]_vars

C6_Witness ==
    /\ ret.op = "initialize"
    /\ ret.tried = <<>>
    /\ passes = 1
    /\ db # None
    /\ db # Some(EmptyImage)

\* execute() has just resolved with rows changed while the directory backend
\* is active.
MutatedOnDirectoryBackend ==
    /\ ret.op = "execute"
    /\ ret.result = "resolved"
    /\ ret.value[1] > 0
    /\ currentStorage = "fileSystem"
    /\ dirHandle # None

ImportRan == ret.op = "importData" /\ ret.before # None
Source == ret.src[1]
Before == ret.before[1]
After == db[1]

SameRows(img, d) ==
    \A t \in SeqToSet(d.order) : HasTable(img, t) /\ img.tab[t].rows = d.tab[t].rows

\* C7: importing the dump exportData made of a dataset, into that dataset
\* itself or into a fresh image, leaves every table of the dataset with the
\* rows the dataset has.
C7_ExportImportRoundTrip ==
    (ImportRan /\ Before \in {Source, EmptyImage}) => SameRows(After, Source)

HasQuote(cell) == ~cell.null /\ Quote \in SeqToSet(cell.s)

\* C8: a text with a single quote in it is exported as a quoted literal with
\* the quote doubled, and importing the dump of a dataset of one table into
\* an image where that table is empty, or into a fresh image, restores the
\* text exactly.
C8_QuotesSurviveRoundTrip ==
    /\ Literal(OBrien) = <<Quote, "O", Quote, Quote, "B", Quote>>
    /\ (ImportRan /\ Len(Source.order) = 1 /\ Before.tab[Source.order[1]].rows = <<>>) =>
          \A id \in DOMAIN Source.tab[Source.order[1]].rows :
             HasQuote(Source.tab[Source.order[1]].rows[id]) =>
                /\ HasTable(After, Source.order[1])
                /\ id \in DOMAIN After.tab[Source.order[1]].rows
                /\ After.tab[Source.order[1]].rows[id] = Source.tab[Source.order[1]].rows[id]

\* A key-value import that was rejected at entry failAt of its bundle.
IdbImportFailed == ret.op = "idb.importData" /\ ret.result = "rejected" /\ ret.failAt > 0
Entries == ret.src[1].stores
StoresBefore == ret.before[1]

\* The content of an emptied store once the first n of items are added.
Loaded(items, n) ==
    [id \in {items[i].id : i \in 1..n} |-> items[CHOOSE i \in 1..n : items[i].id = id].v]

\* An SQL import that was rejected at command failAt of its dump.
SqlImportFailed == ImportRan /\ ret.result = "rejected" /\ ret.failAt > 0

\* The number of commands the dump has for the tables before the j-th.
CommandsBefore(d, j) ==
    Len(Commands(ExportText([d EXCEPT !.order = SubSeq(@, 1, j - 1)])))

\* C10 as stated: after an import that failed partway, the collections
\* before the failure point hold exactly the rows of the bundle, and those
\* after it are as they were before the import.
C10_EarlierReloadedLaterUntouched ==
    /\ IdbImportFailed =>
         \A j \in 1..Len(Entries) : Entries[j].name \in StoreNames =>
            /\ j < ret.failAt =>
                 stores[Entries[j].name] = Loaded(Entries[j].items, Len(Entries[j].items))
            /\ j > ret.failAt => stores[Entries[j].name] = StoresBefore[Entries[j].name]
    /\ SqlImportFailed =>
         \A j \in 1..Len(Source.order) :
            /\ CommandsBefore(Source, j + 1) < ret.failAt =>
                 /\ HasTable(After, Source.order[j])
                 /\ After.tab[Source.order[j]].rows = Source.tab[Source.order[j]].rows
            /\ CommandsBefore(Source, j) >= ret.failAt =>
                 After.tab[Source.order[j]] = Before.tab[Source.order[j]]

\* The entry of the bundle that names store n, 0 when none does.
EntryOf(n) ==
    IF \E j \in 1..Len(Entries) : Entries[j].name = n
    THEN CHOOSE j \in 1..Len(Entries) : Entries[j].name = n
    ELSE 0

\* C10, amended.  Key-value path: a failure while clearing leaves the stores
\* named before the failing name empty and every other store as it was; a
\* failure while adding leaves every store the bundle names cleared, those
\* before the failing entry holding exactly their items, the failing one the
\* items added before the failure, those after it empty, and the stores the
\* bundle does not name as they were.  SQL path: no table is cleared, every
\* row added is a row of the bundle, and the tables whose commands come
\* after the failing one are as they were.
C10_PartialImportState ==
    /\ (IdbImportFailed /\ ret.error = "clear") =>
         \A n \in StoreNames :
            stores[n] = IF EntryOf(n) # 0 /\ EntryOf(n) < ret.failAt THEN <<>>
                        ELSE StoresBefore[n]
    /\ (IdbImportFailed /\ ret.error = "add") =>
         \A n \in StoreNames :
            stores[n] =
              IF EntryOf(n) = 0 THEN StoresBefore[n]
              ELSE IF EntryOf(n) < ret.failAt
              THEN Loaded(Entries[EntryOf(n)].items, Len(Entries[EntryOf(n)].items))
              ELSE IF EntryOf(n) = ret.failAt
              THEN Loaded(Entries[EntryOf(n)].items, ret.value[1] - 1)
              ELSE <<>>
    /\ SqlImportFailed =>
         /\ \A t \in TableNames :
              /\ HasTable(Before, t) => HasTable(After, t)
              /\ \A id \in DOMAIN Before.tab[t].rows :
                   /\ id \in DOMAIN After.tab[t].rows
                   /\ After.tab[t].rows[id] = Before.tab[t].rows[id]
              /\ \A id \in (DOMAIN After.tab[t].rows) \ (DOMAIN Before.tab[t].rows) :
                   /\ id \in DOMAIN Source.tab[t].rows
                   /\ After.tab[t].rows[id] = Source.tab[t].rows[id]
         /\ \A j \in 1..Len(Source.order) :
              CommandsBefore(Source, j) >= ret.failAt =>
                 /\ After.tab[Source.order[j]] = Before.tab[Source.order[j]]
                 /\ HasTable(After, Source.order[j]) <=> HasTable(Before, Source.order[j])

\* A key-value import fails while adding the first of two entries, and the
\* store of the second held records before the import.
C10_Witness ==
    /\ IdbImportFailed
    /\ ret.error = "add"
    /\ ret.failAt = 1
    /\ Len(Entries) = 2
    /\ Entries[2].name \in StoreNames
    /\ StoresBefore[Entries[2].name] # <<>>

\* ------------------------------------------- claims on directory selection
SelectRan == ret.op = "selectStorageDirectory"

\* The directory backend is the active one and the file of the granted
\* directory holds the live image (loaded from it, or created in it).
DirectoryInUse ==
    /\ currentStorage = "fileSystem"
    /\ dirHandle # None
    /\ db # None
    /\ files[dirHandle[1]] = db

\* C11: where the directory API is supported, selectStorageDirectory never
\* throws; it returns true exactly when the directory backend came into use
\* with the file loaded or created, and false on every failure (cancelled or
\* rejected picker, file neither loaded nor created).
C11_SelectReturnsSuccessNeverThrows ==
    (SelectRan /\ fsSupported) =>
       /\ ret.result = "resolved"
       /\ ret.value = DirectoryInUse

\* C12: when the picker was shown and the user cancelled it, the settings
\* view ends the attempt with an empty error status.
C12_CancelReportsNoError ==
    (ret.op = "handleSelectDirectory" /\ ~mobile /\ fsSupported /\ ret.src = Some("cancel"))
       => view.error = ""

\* The user granted a directory in the picker of this call.
Granted == SelectRan /\ fsSupported /\ ret.src[1] \in Dirs

\* C13: when the directory API is supported and the user grants a directory
\* once initialize has made a backend active, selectStorageDirectory returns
\* true and the directory backend is the active one, whatever backend was
\* active before, and the image is the one the directory's file held, or an
\* empty one when it held none.
C13_GrantSwitchesToDirectory ==
    (Granted /\ initialized) =>
       /\ ret.value = TRUE
       /\ currentStorage = "fileSystem"
       /\ dirHandle = ret.src
       /\ db = IF ret.before # None THEN ret.before ELSE Some(EmptyImage)

\* C14: the directory backend is active only with a directory handle, and
\* the handle is set only by a selectStorageDirectory call in which the user
\* granted a directory: initialize never sets it, whatever the remembered
\* directory name and the preferred backend.
C14_DirectoryBackendNeedsGrant ==
    /\ [](currentStorage = "fileSystem" => dirHandle # None)
    /\ [][dirHandle' # dirHandle =>
            (ret'.op = "selectStorageDirectory" /\ ret'.src[1] \in Dirs
               /\ dirHandle' = ret'.src)]_vars

\* initialize('fileSystem') has run in a session with no grant, where the
\* directory API is supported and a directory name is remembered.
C14_Witness ==
    /\ ret.op = "initialize"
    /\ initBy = "fileSystem"
    /\ fsSupported
    /\ hasDirectory # None
    /\ dirHandle = None
    /\ "fileSystem" \in SeqToSet(ret.tried)
    /\ currentStorage # "fileSystem"

\* C15: a backend attempt that fails retains nothing: after a
\* selectStorageDirectory call that returns false, and after an initialize
\* whose candidates all failed, the directory handle, the SQL engine, the
\* image and the remembered directory are as they were before the call.
C15_FailedAttemptLeavesNothing ==
    [][((ret'.op = "selectStorageDirectory" /\ ret'.result = "resolved" /\ ret'.value = FALSE)
          \/ (ret'.op = "initialize" /\ degraded' /\ ~degraded))
         => (dirHandle' = dirHandle /\ sql' = sql /\ db' = db
               /\ hasDirectory' = hasDirectory)]_vars

\* --------------------------------------------------- claims on the quota
\* getStorageInfo ran with the key-value backend active and an estimate
\* whose quota is positive.
InfoWithQuota ==
    /\ ret.op = "getStorageInfo"
    /\ currentStorage = "indexedDB"
    /\ ret.src[1].kind = "value"
    /\ OrZero(ret.src[1].quota) > 0

\* p = usage / quota * 100, both sides cleared of their denominators.
IsPercentageOf(p, usage, quota) ==
    p.den > 0 /\
    p.num * (quota \div Gcd(usage, quota)) = 100 * (usage \div Gcd(usage, quota)) * p.den

\* C16: with the key-value backend active and an estimate with quota > 0,
\* getStorageInfo reports percentage = usage / quota * 100 and
\* available = quota - usage; for quota 2,000,000,000 and usage 500,000,000
\* the percentage is 25.
C16_QuotaPercentage ==
    InfoWithQuota =>
       /\ ret.value.quota # None
       /\ IsPercentageOf(ret.value.quota[1].percentage,
                         OrZero(ret.src[1].usage), OrZero(ret.src[1].quota))
       /\ ret.value.quota[1].available = OrZero(ret.src[1].quota) - OrZero(ret.src[1].usage)
       /\ ret.src = Some(Estimate(Some(2000000000), Some(500000000)))
            => ret.value.quota[1].percentage = Whole(25)

C16_Witness ==
    /\ InfoWithQuota
    /\ ret.src = Some(Estimate(Some(2000000000), Some(500000000)))
    /\ ret.value.quota[1].percentage = Whole(25)
    /\ ret.value.quota[1].available = 1500000000

\* C17: without the estimate capability getStorageQuota resolves to zeros,
\* and with an estimate whose quota is 0 or missing the percentage is 0.
C17_QuotaZeros ==
    /\ (ret.op = "getStorageQuota" /\ ret.src[1].kind = "absent") =>
          /\ ret.result = "resolved"
          /\ ret.value.quota = 0 /\ ret.value.usage = 0
          /\ ret.value.available = 0 /\ ret.value.percentage = Whole(0)
    /\ (ret.op = "getStorageQuota" /\ ret.src[1].kind = "value"
          /\ OrZero(ret.src[1].quota) = 0) =>
          /\ ret.result = "resolved"
          /\ ret.value.percentage = Whole(0)

\* getStorageQuota ran without the capability.
C17_Witness ==
    /\ ret.op = "getStorageQuota"
    /\ ret.src[1].kind = "absent"
    /\ ret.result = "resolved"

SettingsKeys(t) ==
    UNION ({DOMAIN db[i].tab[t].rows : i \in DOMAIN db}
           \cup {DOMAIN files[d][1].tab[t].rows : d \in {x \in Dirs : files[x] # None}})

\* C19: whatever the facades did, countdown_settings and pomodoro_settings
\* hold at most one row each, and its primary key is 1.
C19_SettingsAreSingletons == \A t \in SettingsTables : SettingsKeys(t) \subseteq {1}

\* saveSettings resolved, and the table holds the one row, under key 1, with
\* the value just saved.
C19_Witness ==
    /\ ret.op = "saveSettings"
    /\ ret.result = "resolved"
    /\ ret.src = Some(Txt(<<"b">>))
    /\ db # None
    /\ db[1].tab["countdown_settings"].rows = (1 :> Txt(<<"b">>))
    /\ db[1].tab["countdown_settings"].seq = 1

\* The tables and the indexes a schema text declares.
DeclaredTables(schema) == {schema[i].t : i \in {j \in DOMAIN schema : schema[j].k = "create"}}
DeclaredIndexes(schema) ==
    {schema[i].name : i \in {j \in DOMAIN schema : schema[j].k = "createIndex"}}

\* C20: once initializeAppTables(appName, schemaSQL) has resolved, every
\* table and every index the schema declares exists, the rows that were
\* there before are as they were, and the same call made again changes
\* nothing.
C20_SchemaFullyCreated ==
    [][(ret'.op = "initializeAppTables" /\ ret'.result = "resolved") =>
         /\ db' # None
         /\ \A t \in DeclaredTables(ret'.src[1]) : HasTable(db'[1], t)
         /\ DeclaredIndexes(ret'.src[1]) \subseteq db'[1].idx
         /\ db # None =>
              \A t \in AllTables : \A id \in DOMAIN db[1].tab[t].rows :
                 /\ id \in DOMAIN db'[1].tab[t].rows
                 /\ db'[1].tab[t].rows[id] = db[1].tab[t].rows[id]
         /\ (ret.op = "initializeAppTables" /\ ret.result = "resolved"
               /\ ret.src = ret'.src) => db' = db]_vars

\* ------------------------------------------------ claims on the candidates
\* C21: within one initialize(preferred) call each backend kind is attempted
\* at most once: no kind occurs twice among the candidates the pass tried.
C21_EachBackendTriedOnce ==
    ret.op = "initialize" =>
        \A i, j \in DOMAIN ret.tried : i # j => ret.tried[i] # ret.tried[j]

\* ------------------------------------------------- claims on the SQL dump
\* The statements a dump of dataset d contains, in document order: for each
\* table its CREATE TABLE, then one INSERT per row.
RECURSIVE RowStatements(_, _, _)
RowStatements(t, tbl, i) ==
    IF i > tbl.seq THEN <<>>
    ELSE (IF i \in DOMAIN tbl.rows THEN <<Insert(t, i, tbl.rows[i])>> ELSE <<>>)
           \o RowStatements(t, tbl, i + 1)

RECURSIVE StatementsFrom(_, _)
StatementsFrom(d, j) ==
    IF j > Len(d.order) THEN <<>>
    ELSE <<CreateTable(d.order[j], FALSE)>> \o RowStatements(d.order[j], d.tab[d.order[j]], 1)
           \o StatementsFrom(d, j + 1)

DumpStatements(d) == StatementsFrom(d, 1)

\* The statements importData hands to execute for a text, in order.
Executed(sqlDump) ==
    [k \in 1..Len(Commands(sqlDump)) |-> ParseCommand(Trim(Commands(sqlDump)[k]))]

\* C22: importData(text) executes the statements of text in document order
\* and skips none of them: up to the command that failed, if one did, the
\* k-th statement executed is the k-th statement of the text, and an import
\* that resolved executed them all.
C22_ImportExecutesEveryStatement ==
    ImportRan =>
        /\ ret.result = "resolved" =>
             Len(Executed(ExportText(Source))) = Len(DumpStatements(Source))
        /\ \A k \in 1..Len(Executed(ExportText(Source))) :
             (ret.failAt = 0 \/ k <= ret.failAt) =>
                /\ k <= Len(DumpStatements(Source))
                /\ Executed(ExportText(Source))[k] = DumpStatements(Source)[k]

\* The semicolons of a text that end a statement: those outside a quoted
\* literal, that is, with an even number of quotes before them.
Terminators(text) ==
    {j \in 1..Len(text) :
        text[j] = Semi /\ Cardinality({h \in 1..(j - 1) : text[h] = Quote}) % 2 = 0}

\* The k-th of them, 0 for k = 0.
NthTerminator(text, k) ==
    IF k = 0 THEN 0
    ELSE CHOOSE j \in Terminators(text) :
            Cardinality({h \in Terminators(text) : h < j}) = k - 1

\* The statements an SQL reader finds in a text, in document order.
SqlStatements(text) ==
    [k \in 1..Cardinality(Terminators(text)) |->
        ParseCommand(SubSeq(text, NthTerminator(text, k - 1) + 1,
                            NthTerminator(text, k) - 1))]

ExportRan == ret.op = "exportData" /\ ret.result = "resolved"

\* C23: the text exportData returns holds, for every user table in turn and
\* for no other table, the table's creation statement followed by one
\* INSERT per row with the row's values, a null value as NULL; a table
\* without rows contributes its creation statement alone.
C23_ExportListsEveryTableAndRow ==
    ExportRan => SqlStatements(ret.value) = DumpStatements(db[1])

\* An export of an image that has a table without rows and a row with a
\* null value.
C23_Witness ==
    /\ ExportRan
    /\ \E t \in SeqToSet(db[1].order) : db[1].tab[t].rows = <<>>
    /\ \E t \in SeqToSet(db[1].order) : \E id \in DOMAIN db[1].tab[t].rows :
          db[1].tab[t].rows[id].null

\* ----------------------------------------- claims on the key-value import
IdbImportDone == ret.op = "idb.importData" /\ ret.result = "resolved"

\* C24: after a key-value importData(data) that succeeded, every store the
\* bundle names holds exactly the records the bundle lists for it, every
\* other store is as it was, and importing what exportData returned leaves
\* every store as it was.
C24_ImportReplacesNamedStores ==
    IdbImportDone =>
        /\ \A n \in StoreNames :
             stores[n] = IF EntryOf(n) = 0 THEN StoresBefore[n]
                         ELSE Loaded(Entries[EntryOf(n)].items, Len(Entries[EntryOf(n)].items))
        /\ ret.src[1] = ExportBundle(StoresBefore) => stores = StoresBefore

\* An import that succeeded on a bundle naming one store, with records in
\* both stores beforehand that the bundle does not list.
C24_Witness ==
    /\ IdbImportDone
    /\ Len(Entries) = 1
    /\ Entries[1].name = "todos"
    /\ StoresBefore["todos"] # <<>>
    /\ StoresBefore["chat_messages"] # <<>>
    /\ stores["todos"] # StoresBefore["todos"]

\* The export of stores that hold records was imported back.
C24_RoundTripWitness ==
    /\ IdbImportDone
    /\ ret.src[1] = ExportBundle(StoresBefore)
    /\ \A n \in StoreNames : Cardinality(DOMAIN StoresBefore[n]) = MaxId

\* ------------------------------------------------ claims on load-or-create
\* The step ran initializeSQLiteFromFile past its guard: a directory was
\* selected with the SQL engine loaded, or a selection pass activated the
\* directory backend.
LoadOrCreateRan ==
    \/ ret'.op = "selectStorageDirectory" /\ ret'.result = "resolved" /\ ret'.value = TRUE
    \/ ret'.op = "initialize" /\ ~initialized /\ currentStorage' = "fileSystem"

\* C25: load-or-create makes the file of the granted directory the image
\* and leaves the file as it is when the file exists; when it does not, the
\* image is empty and the file, if the write went through, holds it.
C25_LoadsExistingFileUntouched ==
    [][LoadOrCreateRan =>
         /\ dirHandle' # None
         /\ IF files[dirHandle'[1]] # None
            THEN db' = files[dirHandle'[1]] /\ files' = files
            ELSE /\ db' = Some(EmptyImage)
                 /\ files'[dirHandle'[1]] \in {None, Some(EmptyImage)}]_vars

\* ---------------------------------------------- claims on overlapping calls
\* C26: of initialize() calls that overlap only one selection pass takes
\* effect: a call that settles once the manager is initialized leaves the
\* image, with its tables and rows, as it is.
C26_OverlappingInitializeKeepsImage ==
    [][(ret'.op = "initialize" /\ initialized) => db' = db]_vars

\* ------------------------------------------------ claims on the chat data
\* The messages stored for conversation id.
MessagesOf(id) ==
    {mid \in DOMAIN db[1].tab["chat_messages"].rows :
        db[1].tab["chat_messages"].rows[mid] = Num(id)}

C28_MessagesBelongToConversations ==
    db # None =>
        \A mid \in DOMAIN db[1].tab["chat_messages"].rows :
            NumOf(db[1].tab["chat_messages"].rows[mid])
                \in DOMAIN db[1].tab["chat_conversations"].rows

\* A key-value import of a bundle without a stores property.
NoStoresImport == ret.op = "idb.importData" /\ ret.src = Some(NoStoresBundle)

\* C29 as stated: importData of a bundle without stores rejects with
\* 'Invalid import data format' and leaves every store as it was.
C29_NoStoresRejectedAsInvalid ==
    NoStoresImport =>
        /\ ret.result = "rejected"
        /\ ret.error = "Invalid import data format"
        /\ stores = StoresBefore

\* C29, amended: importData of a bundle without stores rejects and leaves
\* every store as it was; the error is 'Invalid import data format' when the
\* database is open, and the error of ensureInitialized when it could not be
\* opened.
C29_NoStoresRejectedUntouched ==
    NoStoresImport =>
        /\ ret.result = "rejected"
        /\ stores = StoresBefore
        /\ ret.error = IF idbOpen THEN "Invalid import data format"
                       ELSE "Failed to open IndexedDB"

\* A bundle without stores was rejected as invalid while both stores held
\* records.
C29_Witness ==
    /\ NoStoresImport
    /\ ret.error = "Invalid import data format"
    /\ \A n \in StoreNames : stores[n] # <<>>

\* ---------------------------------------------- claims on the session stats
\* The number of consecutive days in W that end with day d.
RECURSIVE Run(_, _)
Run(W, d) == IF d \in W THEN 1 + Run(W, d - 1) ELSE 0

\* C30: the streak getSessionStats returns is the length of the run of
\* consecutive days with a work session that ends today, or that ends
\* yesterday when today has no work session.
C30_StreakIsRunEndingTodayOrYesterday ==
    (ret.op = "getSessionStats" /\ ret.result = "resolved") =>
        ret.value[1] = IF ret.src[1][1] \in WorkDays(db[1])
                       THEN Run(WorkDays(db[1]), ret.src[1][1])
                       ELSE Run(WorkDays(db[1]), ret.src[1][1] - 1)

====
